---- MODULE Spec2Model ----
(***************************************************************************)
(* Cold-Calling-Display: the position / filter persistence of the          *)
(* dashboard component.                                                    *)
(*                                                                         *)
(* Spec     models the filtered dashboard (src/unnamed/part_000).          *)
(* SpecApp  models the unfiltered dashboard with the position editor       *)
(*          (src/src/App.tsx).                                             *)
(*                                                                         *)
(* A React render is a state; the passive effects of a commit run          *)
(* together, in declaration order, before the next event is handled        *)
(* (pc = "effects" until they have run); state updates queued by effects   *)
(* are batched and the last one wins.                                      *)
(***************************************************************************)
EXTENDS Integers, Sequences, FiniteSets

\* ------------------------------------------------------------- bounds
MaxRows == 2

\* ------------------------------------------------------------- text
\* Text is a sequence of one-character strings, so that String(n) and
\* parseInt(s, 10) are computed and not assumed.
DigitChars == <<"0", "1", "2", "3", "4", "5", "6", "7", "8", "9">>

IsDigit(c) == \E i \in 1..Len(DigitChars) : DigitChars[i] = c

DigitVal(c) == (CHOOSE i \in 1..Len(DigitChars) : DigitChars[i] = c) - 1

RECURSIVE ToString(_)
ToString(n) ==
    IF n < 0 THEN <<"-">> \o ToString(0 - n)
    ELSE IF n < 10 THEN <<DigitChars[n + 1]>>
    ELSE ToString(n \div 10) \o <<DigitChars[(n % 10) + 1]>>

RECURSIVE SkipSpaces(_)
SkipSpaces(t) ==
    IF t # <<>> /\ Head(t) = " " THEN SkipSpaces(Tail(t)) ELSE t

RECURSIVE DigitsValue(_, _)
DigitsValue(t, acc) ==
    IF t # <<>> /\ IsDigit(Head(t))
    THEN DigitsValue(Tail(t), acc * 10 + DigitVal(Head(t)))
    ELSE acc

\* parseInt(s, 10): leading blanks, an optional sign, then the longest prefix
\* of decimal digits; NaN when there is no digit.
ParseInt(s) ==
    LET t    == SkipSpaces(s)
        neg  == t # <<>> /\ Head(t) = "-"
        sgn  == t # <<>> /\ Head(t) \in {"-", "+"}
        body == IF sgn THEN Tail(t) ELSE t
    IN  IF body = <<>> \/ ~IsDigit(Head(body))
        THEN [nan |-> TRUE, val |-> 0]
        ELSE [nan |-> FALSE,
              val |-> IF neg THEN 0 - DigitsValue(body, 0)
                             ELSE DigitsValue(body, 0)]

\* String.prototype.trim: white space is dropped at both ends.
IsSpace(c) == c \in {" ", "\t", "\n"}

RECURSIVE TrimStart(_)
TrimStart(t) ==
    IF t # <<>> /\ IsSpace(Head(t)) THEN TrimStart(Tail(t)) ELSE t

RECURSIVE TrimEnd(_)
TrimEnd(t) ==
    IF t # <<>> /\ IsSpace(t[Len(t)]) THEN TrimEnd(SubSeq(t, 1, Len(t) - 1)) ELSE t

Trim(t) == TrimEnd(TrimStart(t))

Max(a, b) == IF a > b THEN a ELSE b
Min(a, b) == IF a < b THEN a ELSE b

clamp(value, min, max) == Min(Max(value, min), max)

\* ------------------------------------------------------------- inputs
\* Industry values of rows; "" is a row with no industry.
RowIndustries == {"", "A", "B"}

\* The datasets the fetched text can parse to: rows in source order, each
\* with the line it came from and its industry.
RowsOf(inds) == [i \in DOMAIN inds |-> [line |-> i, industry |-> inds[i]]]

Datasets == {RowsOf(inds) : inds \in UNION {[1..n -> RowIndustries] : n \in 0..MaxRows}}

\* A storage item or URL parameter: absent (getItem / get return null) or a value.
NoText == [has |-> FALSE, v |-> <<>>]
SomeText(t) == [has |-> TRUE, v |-> t]
NoName == [has |-> FALSE, v |-> ""]
SomeName(s) == [has |-> TRUE, v |-> s]

\* What localStorage can hold under the index key when the page opens.
\* (What a session writes itself is reached through Reload.)
StartStoredIndex ==
    {NoText, SomeText(<<"-", "1">>), SomeText(<<"x">>), SomeText(<<"1">>),
     SomeText(<<"9">>)}

StartStoredIndustry == {NoName, SomeName("A"), SomeName("B")}

\* The industry parameter of the URL the page is opened with: absent, present
\* and empty, or naming an industry.
StartUrlIndustry == {NoName, SomeName(""), SomeName("A")}

\* The bodies the response can have: empty, white space only, or CSV text.
ResponseTexts == {<<>>, <<" ", "\n">>, <<" ", "c", "s", "v", "\n">>}

\* What the user can type into the number input before pressing Go.
JumpInputs ==
    {<<>>, <<"-", "1">>}
        \cup {ToString(n) : n \in 0..(MaxRows + 1)}

\* ------------------------------------------------------------- state
VARIABLES
    dataset,            \* the rows the resource at /data.csv parses to
    fetchState,         \* "unsent" | "fetching" | "reading" | "done"
    csvLoaded,          \* csvText is non-empty
    selectedIndustry,
    currentIndex,
    initializedRef,
    hasInitializedRef,
    jumpInput,
    showJumpInput,
    isEditingIndex,     \* App.tsx
    inputIndex,         \* App.tsx
    storedIndex,        \* localStorage[STORAGE_KEY]
    storedIndustry,     \* localStorage[INDUSTRY_STORAGE_KEY]
    urlIndustry,        \* the industry parameter of location.search
    storageMode,        \* "ok" | "quota" (setItem throws) | "disabled" (every access throws)
    pc,                 \* "effects": a commit whose effects have not run; "idle"
    mounted,            \* the mount effects have run
    depIndex,           \* dependency values of the last commit whose effects ran
    depIndustry,
    depTotal,
    crashed,            \* an exception escaped a handler or an effect
    atStartup,          \* history: storage and URL when the page was opened
    beforeReload,       \* history: the view state a reload left behind
    filterChanges,      \* history: filter changes since the page was opened (saturates at 2)
    resetCount,         \* history: runs of the reset since the last filter change (saturates at 2)
    phone,              \* SpecPure: the argument of formatPhoneNumber
    formatted,          \* SpecPure: what formatPhoneNumber returned
    csvRows,            \* SpecPure: the rows Papa.parse returned as parsed.data
    parsedRows,         \* SpecPure: what parseBusinesses returned as businesses
    cancelled,          \* the fetch effect's flag, set by its cleanup
    arrivedLate         \* history: a body the fetch would have taken arrived after the cleanup

vars == <<dataset, fetchState, csvLoaded, selectedIndustry, currentIndex,
          initializedRef, hasInitializedRef, jumpInput, showJumpInput,
          isEditingIndex, inputIndex, storedIndex, storedIndustry, urlIndustry,
          storageMode, pc, mounted, depIndex, depIndustry, depTotal,
          crashed, atStartup, beforeReload, filterChanges, resetCount,
          phone, formatted, csvRows, parsedRows, cancelled, arrivedLate>>

\* The variables of the pure helper functions' specification.
pureVars == <<phone, formatted, csvRows, parsedRows>>

\* The component's teardown: only SpecFetch unmounts the component.
teardownVars == <<cancelled, arrivedLate>>

\* ------------------------------------------------------------- derived values
StorageModes == {"ok", "quota", "disabled"}

\* localStorage.getItem throws / localStorage.setItem throws.
readThrows == storageMode = "disabled"
writeThrows == storageMode \in {"quota", "disabled"}

businesses == IF csvLoaded THEN dataset ELSE <<>>

\* Mutant: rows without an industry pass every filter.
FilterRowsKeepsUnlabelled(rows, industry) ==
    IF industry = "" THEN rows
    ELSE SelectSeq(rows, LAMBDA b : b.industry = industry \/ b.industry = "")

FilterRows(rows, industry) ==
    IF industry = "" THEN rows
    ELSE SelectSeq(rows, LAMBDA b : b.industry = industry)

filteredBusinesses == FilterRows(businesses, selectedIndustry)

industries == {businesses[i].industry : i \in 1..Len(businesses)} \ {""}

total == Len(filteredBusinesses)

\* Mutant: the Next button enabled up to and including the last index.
canGoNextOffByOne == currentIndex < total

\* Mutant: the Previous button enabled at the first index too.
canGoBackInclusive == currentIndex >= 0

canGoBack == currentIndex > 0
canGoNext == currentIndex < total - 1

\* filteredBusinesses[currentIndex] is defined
currentBusinessDefined == currentIndex >= 0 /\ currentIndex < total

cardShown == total > 0 /\ currentBusinessDefined

\* The numbers of row-level errors a parse can report.
ParseErrorCounts == {0, 1, 2}

\* hasErrors, for the errors the parse of csvText reported.
hasErrors(errors) == errors > 0

\* The advisory banner: {errorMessage && ...} is inside the card.
errorBannerShown(errors) == cardShown /\ hasErrors(errors)

\* The industry selector is inside the card.
selectorShown == cardShown

\* ------------------------------------------------------------- storage reads
\* Mutant: the parsed value is returned without the clamp.
getStoredIndexUnclamped(stored, n) ==
    IF n = 0 THEN 0
    ELSE IF readThrows THEN 0
    ELSE LET parsed == IF stored.has /\ stored.v # <<>>
                       THEN ParseInt(stored.v)
                       ELSE [nan |-> FALSE, val |-> 0]
         IN  IF parsed.nan THEN 0 ELSE parsed.val

\* getStoredIndex(n) when localStorage holds `stored` under the index key.
getStoredIndexFrom(stored, n) ==
    IF n = 0 THEN 0
    ELSE IF readThrows THEN 0
    ELSE LET parsed == IF stored.has /\ stored.v # <<>>
                       THEN ParseInt(stored.v)
                       ELSE [nan |-> FALSE, val |-> 0]
         IN  IF parsed.nan THEN 0 ELSE clamp(parsed.val, 0, n - 1)

getStoredIndex(n) == getStoredIndexFrom(storedIndex, n)

\* Mutant: the stored filter is preferred to the URL parameter.
InitialIndustryStoredFirst(url, stored, throws) ==
    IF ~throws /\ stored.has /\ stored.v # "" THEN stored.v
    ELSE IF url.has /\ url.v # "" THEN url.v
    ELSE ""

\* The selectedIndustry initializer, given the URL parameter and the stored item.
InitialIndustry(url, stored, throws) ==
    IF url.has /\ url.v # "" THEN url.v
    ELSE IF throws THEN ""
    ELSE IF stored.has /\ stored.v # "" THEN stored.v
    ELSE ""

StorageNow == [index |-> storedIndex, industry |-> storedIndustry, url |-> urlIndustry]

NoReload == [valid |-> FALSE, index |-> 0, industry |-> ""]

\* ------------------------------------------------------------- construction
\* The dashboard specifications leave the helper functions' variables alone.
NotApplied == [done |-> FALSE, v |-> <<>>]
Applied(value) == [done |-> TRUE, v |-> value]

PureUnused ==
    /\ phone = <<>>
    /\ formatted = NotApplied
    /\ csvRows = <<>>
    /\ parsedRows = NotApplied

\* The first render of a page load: csvText is '', so total is 0.
FirstRender(url, stored, throws) ==
    /\ fetchState = "unsent"
    /\ csvLoaded = FALSE
    /\ cancelled = FALSE
    /\ arrivedLate = FALSE
    /\ selectedIndustry = InitialIndustry(url, stored, throws)
    /\ currentIndex = getStoredIndex(0)
    /\ initializedRef = FALSE
    /\ hasInitializedRef = FALSE
    /\ jumpInput = <<>>
    /\ showJumpInput = FALSE
    /\ isEditingIndex = FALSE
    /\ inputIndex = <<>>
    /\ pc = "effects"
    /\ mounted = FALSE
    /\ depIndex = 0
    /\ depIndustry = ""
    /\ depTotal = 0
    /\ crashed = FALSE
    /\ filterChanges = 0
    /\ resetCount = 0

Init ==
    /\ dataset \in Datasets
    /\ storedIndex \in StartStoredIndex
    /\ storedIndustry \in StartStoredIndustry
    /\ urlIndustry \in StartUrlIndustry
    /\ storageMode \in StorageModes
    /\ FirstRender(urlIndustry, storedIndustry, readThrows)
    /\ PureUnused
    /\ atStartup = StorageNow
    /\ beforeReload = NoReload

\* ------------------------------------------------------------- effects
\* Mutant: the reset effect without its dependency array.
ResetRunsEveryCommit == TRUE

\* Which effects of the pending commit run: all of them on mount, afterwards
\* those with a changed dependency.
PersistRuns == ~mounted \/ depIndex # currentIndex \/ depIndustry # selectedIndustry
RestoreRuns == ~mounted \/ depTotal # total
ResetRuns == ~mounted \/ depIndustry # selectedIndustry

\* Mutant: the persist effect without its hasInitializedRef guard.
PersistAlways == TRUE

\* The persist effect writes only once the refs say the state was rehydrated.
PersistAllowed == hasInitializedRef

\* Mutant: the persist effect without its catch block.
PersistRethrows == TRUE

\* An exception of the persist effect's try block that reaches React: none,
\* the catch block swallows it.
PersistUncaught == FALSE

\* Mutant: the persist effect stores the 1-based position.
PersistEffectOneBased ==
    IF (~mounted \/ depIndex # currentIndex \/ depIndustry # selectedIndustry)
       /\ hasInitializedRef /\ ~writeThrows
    THEN [index    |-> SomeText(ToString(currentIndex + 1)),
          industry |-> SomeName(selectedIndustry),
          url      |-> IF selectedIndustry # "" THEN SomeName(selectedIndustry)
                                                ELSE NoName]
    ELSE StorageNow

\* Storage and URL after the persist effect of the pending commit.
PersistEffect ==
    IF PersistRuns /\ PersistAllowed /\ ~writeThrows
    THEN [index    |-> SomeText(ToString(currentIndex)),
          industry |-> SomeName(selectedIndustry),
          url      |-> IF selectedIndustry # "" THEN SomeName(selectedIndustry)
                                                ELSE NoName]
    ELSE StorageNow

\* Mutant: the restore effect without its initializedRef guard.
RestoreFiresOnEveryLength == RestoreRuns /\ total > 0

\* The restore effect's condition.
RestoreFires == RestoreRuns /\ ~initializedRef /\ total > 0

\* The reset effect's condition; it runs after the restore effect and reads
\* the ref the restore effect may just have set.
ResetFires == ResetRuns /\ (hasInitializedRef \/ RestoreFires)

\* currentIndex after the queued setCurrentIndex calls of the flush.
IndexAfterEffects ==
    IF ResetFires THEN 0
    ELSE IF RestoreFires THEN getStoredIndexFrom(PersistEffect.index, total)
    ELSE currentIndex

Commit(changed) == IF changed THEN "effects" ELSE "idle"

Saturate(n) == Min(n + 1, 2)

\* The passive effects of the pending commit, in declaration order: fetch
\* (mount only), persist, restore, reset.
RunEffects ==
    /\ pc = "effects"
    /\ ~crashed
    /\ ~cancelled
    /\ fetchState' = IF mounted THEN fetchState ELSE "fetching"
    /\ storedIndex' = PersistEffect.index
    /\ storedIndustry' = PersistEffect.industry
    /\ urlIndustry' = PersistEffect.url
    /\ crashed' = (PersistRuns /\ PersistAllowed /\ writeThrows /\ PersistUncaught)
    /\ initializedRef' = (initializedRef \/ RestoreFires)
    /\ hasInitializedRef' = (hasInitializedRef \/ RestoreFires)
    /\ currentIndex' = IndexAfterEffects
    /\ resetCount' = IF ResetFires THEN Saturate(resetCount) ELSE resetCount
    /\ mounted' = TRUE
    /\ depIndex' = currentIndex
    /\ depIndustry' = selectedIndustry
    /\ depTotal' = total
    /\ pc' = Commit(IndexAfterEffects # currentIndex)
    /\ UNCHANGED <<dataset, csvLoaded, selectedIndustry, jumpInput, showJumpInput,
                   isEditingIndex, inputIndex, storageMode, pureVars, teardownVars,
                   atStartup, beforeReload, filterChanges>>

\* ------------------------------------------------------------- fetch
viewVars == <<selectedIndustry, currentIndex, initializedRef, hasInitializedRef,
              jumpInput, showJumpInput, isEditingIndex, inputIndex>>
storageVars == <<storedIndex, storedIndustry, urlIndustry>>
envVars == <<dataset, storageMode, pureVars, teardownVars>>
depVars == <<mounted, depIndex, depIndustry, depTotal>>
historyVars == <<atStartup, beforeReload, filterChanges, resetCount>>

\* fetch or res.text() rejects: the catch block ignores it.
FetchThrows ==
    /\ fetchState \in {"fetching", "reading"}
    /\ ~crashed
    /\ fetchState' = "done"
    /\ UNCHANGED <<csvLoaded, pc, crashed, viewVars, storageVars, envVars,
                   depVars, historyVars>>

\* The response is not OK: nothing is read.
FetchNotOk ==
    /\ fetchState = "fetching"
    /\ ~crashed
    /\ fetchState' = "done"
    /\ UNCHANGED <<csvLoaded, pc, crashed, viewVars, storageVars, envVars,
                   depVars, historyVars>>

FetchOk ==
    /\ fetchState = "fetching"
    /\ ~crashed
    /\ fetchState' = "reading"
    /\ UNCHANGED <<csvLoaded, pc, crashed, viewVars, storageVars, envVars,
                   depVars, historyVars>>

\* Mutant: the body is taken without looking at what trimming leaves.
TextAcceptedUntrimmed(text) == text # <<>>

\* The fetch effect's condition on the body: text && text.trim().length > 0.
TextAccepted(text) == text # <<>> /\ Len(Trim(text)) > 0

\* Mutant: the body is taken without looking at the cancelled flag.
TextAppliedUnguarded(text) == TextAccepted(text)

\* setCsvText(text) is called: !cancelled && text && text.trim().length > 0.
TextApplied(text) == ~cancelled /\ TextAccepted(text)

\* The body arrives: after the cleanup, or blank, it is dropped; other text
\* becomes csvText.
TextArrives(text) ==
    /\ fetchState = "reading"
    /\ pc = "idle"
    /\ ~crashed
    /\ fetchState' = "done"
    /\ csvLoaded' = TextApplied(text)
    /\ pc' = Commit(TextApplied(text))
    /\ arrivedLate' = (arrivedLate \/ (cancelled /\ TextAccepted(text)))
    /\ UNCHANGED <<crashed, viewVars, storageVars, dataset, storageMode, pureVars,
                   cancelled, depVars, historyVars>>

\* The component is unmounted: the fetch effect's cleanup sets the flag, and
\* no effect and no handler of the component runs afterwards.
Teardown ==
    /\ mounted
    /\ ~cancelled
    /\ ~crashed
    /\ cancelled' = TRUE
    /\ pc' = "idle"
    /\ UNCHANGED <<fetchState, csvLoaded, crashed, arrivedLate, viewVars, storageVars,
                   dataset, storageMode, pureVars, depVars, historyVars>>

\* ------------------------------------------------------------- handlers
\* React flushes the pending passive effects before it handles an event.
Interactive == pc = "idle" /\ mounted /\ ~crashed

\* The index the Previous / Next buttons set.
PreviousTarget(index) == Max(0, index - 1)
NextTarget(index, n) == Min(n - 1, index + 1)

\* The Previous button's onClick; a disabled button dispatches no click.
GoPrevious ==
    /\ Interactive
    /\ canGoBack
    /\ currentIndex' = PreviousTarget(currentIndex)
    /\ pc' = Commit(currentIndex' # currentIndex)
    /\ beforeReload' = NoReload
    /\ UNCHANGED <<fetchState, csvLoaded, selectedIndustry, initializedRef,
                   hasInitializedRef, jumpInput, showJumpInput, isEditingIndex,
                   inputIndex, storageVars, envVars, depVars, crashed,
                   atStartup, filterChanges, resetCount>>

\* The Next button's onClick.
GoNext ==
    /\ Interactive
    /\ canGoNext
    /\ currentIndex' = NextTarget(currentIndex, total)
    /\ pc' = Commit(currentIndex' # currentIndex)
    /\ beforeReload' = NoReload
    /\ UNCHANGED <<fetchState, csvLoaded, selectedIndustry, initializedRef,
                   hasInitializedRef, jumpInput, showJumpInput, isEditingIndex,
                   inputIndex, storageVars, envVars, depVars, crashed,
                   atStartup, filterChanges, resetCount>>

\* Mutant: the selector offers industries no row has.
SelectOptionsAnyIndustry == RowIndustries

\* The options of the industry selector.
SelectOptions == {""} \cup industries

\* The selector's onChange: it is rendered inside the card and fires when
\* another option is chosen.
SelectIndustry(f) ==
    /\ Interactive
    /\ cardShown
    /\ f \in SelectOptions
    /\ f # selectedIndustry
    /\ selectedIndustry' = f
    /\ pc' = "effects"
    /\ beforeReload' = NoReload
    /\ filterChanges' = Saturate(filterChanges)
    /\ resetCount' = 0
    /\ UNCHANGED <<fetchState, csvLoaded, currentIndex, initializedRef,
                   hasInitializedRef, jumpInput, showJumpInput, isEditingIndex,
                   inputIndex, storageVars, envVars, depVars, crashed, atStartup>>

\* The "Entry i of n" button.
OpenJump ==
    /\ Interactive
    /\ cardShown
    /\ ~showJumpInput
    /\ showJumpInput' = TRUE
    /\ UNCHANGED <<fetchState, csvLoaded, selectedIndustry, currentIndex,
                   initializedRef, hasInitializedRef, jumpInput, isEditingIndex,
                   inputIndex, storageVars, envVars, depVars, crashed, pc,
                   historyVars>>

\* The number input's onChange.
TypeJump(t) ==
    /\ Interactive
    /\ cardShown
    /\ showJumpInput
    /\ t # jumpInput
    /\ jumpInput' = t
    /\ UNCHANGED <<fetchState, csvLoaded, selectedIndustry, currentIndex,
                   initializedRef, hasInitializedRef, showJumpInput, isEditingIndex,
                   inputIndex, storageVars, envVars, depVars, crashed, pc,
                   historyVars>>

\* Mutant: handleJump without the lower bound.
JumpAcceptedNoLowerBound(num) == ~num.nan /\ num.val <= total

\* handleJump's condition: num >= 1 && num <= total (false for NaN).
JumpAccepted(num) == ~num.nan /\ num.val >= 1 /\ num.val <= total

\* The Go button and the Enter key.
handleJump ==
    /\ Interactive
    /\ cardShown
    /\ showJumpInput
    /\ LET num == ParseInt(jumpInput)
       IN  IF JumpAccepted(num)
           THEN /\ currentIndex' = num.val - 1
                /\ showJumpInput' = FALSE
                /\ jumpInput' = <<>>
                /\ pc' = Commit(currentIndex' # currentIndex)
                /\ beforeReload' = NoReload
           ELSE UNCHANGED <<currentIndex, showJumpInput, jumpInput, pc, beforeReload>>
    /\ UNCHANGED <<fetchState, csvLoaded, selectedIndustry, initializedRef,
                   hasInitializedRef, isEditingIndex, inputIndex, storageVars,
                   envVars, depVars, crashed, atStartup, filterChanges, resetCount>>

\* The Cancel button and the Escape key.
CancelJump ==
    /\ Interactive
    /\ cardShown
    /\ showJumpInput
    /\ showJumpInput' = FALSE
    /\ jumpInput' = <<>>
    /\ UNCHANGED <<fetchState, csvLoaded, selectedIndustry, currentIndex,
                   initializedRef, hasInitializedRef, isEditingIndex,
                   inputIndex, storageVars, envVars, depVars, crashed, pc,
                   historyVars>>

\* The page is reloaded: the component is constructed again over the storage
\* and the URL the session left, and the same resource is fetched again.
Reload ==
    /\ pc = "idle"
    /\ mounted
    /\ beforeReload' = [valid    |-> hasInitializedRef /\ ~crashed,
                        index    |-> currentIndex,
                        industry |-> selectedIndustry]
    /\ atStartup' = StorageNow
    /\ fetchState' = "unsent"
    /\ csvLoaded' = FALSE
    /\ selectedIndustry' = InitialIndustry(urlIndustry, storedIndustry, readThrows)
    /\ currentIndex' = getStoredIndex(0)
    /\ initializedRef' = FALSE
    /\ hasInitializedRef' = FALSE
    /\ jumpInput' = <<>>
    /\ showJumpInput' = FALSE
    /\ pc' = "effects"
    /\ mounted' = FALSE
    /\ depIndex' = 0
    /\ depIndustry' = ""
    /\ depTotal' = 0
    /\ crashed' = FALSE
    /\ filterChanges' = 0
    /\ resetCount' = 0
    /\ UNCHANGED <<isEditingIndex, inputIndex, storageVars, envVars>>

Next ==
    \/ RunEffects
    \/ FetchThrows
    \/ FetchNotOk
    \/ FetchOk
    \/ \E text \in ResponseTexts : TextArrives(text)
    \/ GoPrevious
    \/ GoNext
    \/ \E f \in RowIndustries : SelectIndustry(f)
    \/ OpenJump
    \/ \E t \in JumpInputs : TypeJump(t)
    \/ handleJump
    \/ CancelJump
    \/ Reload

Spec == Init /\ [][Next]_vars

\* ------------------------------------------------------------- src/src/App.tsx
\* The dashboard without the industry filter: total is businesses.length, only
\* the index is persisted, and the position is edited in place.
showNavigation == total > 0

filterFree ==
    <<selectedIndustry, storedIndustry, urlIndustry, jumpInput, showJumpInput,
      depIndustry, historyVars>>

InitApp ==
    /\ dataset \in Datasets
    /\ storedIndex \in StartStoredIndex
    /\ storedIndustry = NoName
    /\ urlIndustry = NoName
    /\ storageMode \in StorageModes
    /\ FirstRender(urlIndustry, storedIndustry, readThrows)
    /\ PureUnused
    /\ atStartup = StorageNow
    /\ beforeReload = NoReload

AppPersistRuns == ~mounted \/ depIndex # currentIndex

\* localStorage[STORAGE_KEY] after the persist effect of the pending commit.
AppPersistEffect ==
    IF AppPersistRuns /\ hasInitializedRef /\ ~writeThrows
    THEN SomeText(ToString(currentIndex))
    ELSE storedIndex

AppIndexAfterEffects ==
    IF RestoreFires THEN getStoredIndexFrom(AppPersistEffect, total)
    ELSE currentIndex

\* The passive effects of the pending commit: fetch (mount only), persist, restore.
AppRunEffects ==
    /\ pc = "effects"
    /\ ~crashed
    /\ ~cancelled
    /\ fetchState' = IF mounted THEN fetchState ELSE "fetching"
    /\ storedIndex' = AppPersistEffect
    /\ initializedRef' = (initializedRef \/ RestoreFires)
    /\ hasInitializedRef' = (hasInitializedRef \/ RestoreFires)
    /\ currentIndex' = AppIndexAfterEffects
    /\ mounted' = TRUE
    /\ depIndex' = currentIndex
    /\ depTotal' = total
    /\ pc' = Commit(AppIndexAfterEffects # currentIndex)
    /\ UNCHANGED <<dataset, csvLoaded, isEditingIndex, inputIndex, storageMode, pureVars, teardownVars,
                   crashed, filterFree>>

AppPreviousDisabled == ~showNavigation \/ currentIndex = 0
AppNextDisabled == ~showNavigation \/ currentIndex >= total - 1

AppPrevious ==
    /\ Interactive
    /\ ~AppPreviousDisabled
    /\ currentIndex' = clamp(currentIndex - 1, 0, total - 1)
    /\ pc' = Commit(currentIndex' # currentIndex)
    /\ UNCHANGED <<dataset, fetchState, csvLoaded, initializedRef, hasInitializedRef,
                   isEditingIndex, inputIndex, storedIndex, storageMode, pureVars, teardownVars, depVars,
                   crashed, filterFree>>

AppNext ==
    /\ Interactive
    /\ ~AppNextDisabled
    /\ currentIndex' = clamp(currentIndex + 1, 0, total - 1)
    /\ pc' = Commit(currentIndex' # currentIndex)
    /\ UNCHANGED <<dataset, fetchState, csvLoaded, initializedRef, hasInitializedRef,
                   isEditingIndex, inputIndex, storedIndex, storageMode, pureVars, teardownVars, depVars,
                   crashed, filterFree>>

\* The "Business i of n" button.
EditIndex ==
    /\ Interactive
    /\ showNavigation
    /\ ~isEditingIndex
    /\ isEditingIndex' = TRUE
    /\ inputIndex' = ToString(currentIndex + 1)
    /\ UNCHANGED <<dataset, fetchState, csvLoaded, currentIndex, initializedRef,
                   hasInitializedRef, storedIndex, storageMode, pureVars, teardownVars, pc, depVars,
                   crashed, filterFree>>

\* The position input's onChange.
TypeIndex(t) ==
    /\ Interactive
    /\ showNavigation
    /\ isEditingIndex
    /\ t # inputIndex
    /\ inputIndex' = t
    /\ UNCHANGED <<dataset, fetchState, csvLoaded, currentIndex, initializedRef,
                   hasInitializedRef, isEditingIndex, storedIndex, storageMode, pureVars, teardownVars, pc,
                   depVars, crashed, filterFree>>

\* The index commitIndex sets for a finite parsed value.
CommitTarget(parsed, n) == clamp(parsed - 1, 0, n - 1)

\* The Go button, the Enter key and the input's blur.
commitIndex ==
    /\ Interactive
    /\ showNavigation
    /\ isEditingIndex
    /\ LET parsed == ParseInt(inputIndex)
       IN  currentIndex' = IF parsed.nan THEN currentIndex
                           ELSE CommitTarget(parsed.val, total)
    /\ isEditingIndex' = FALSE
    /\ pc' = Commit(currentIndex' # currentIndex)
    /\ UNCHANGED <<dataset, fetchState, csvLoaded, initializedRef, hasInitializedRef,
                   inputIndex, storedIndex, storageMode, pureVars, teardownVars, depVars, crashed, filterFree>>

\* The Escape key.
EscapeEdit ==
    /\ Interactive
    /\ showNavigation
    /\ isEditingIndex
    /\ isEditingIndex' = FALSE
    /\ UNCHANGED <<dataset, fetchState, csvLoaded, currentIndex, initializedRef,
                   hasInitializedRef, inputIndex, storedIndex, storageMode, pureVars, teardownVars, pc,
                   depVars, crashed, filterFree>>

\* The Cancel button: pressing it moves the focus off the input, whose onBlur
\* is commitIndex; the click's setIsEditingIndex(false) then changes nothing.
CancelButton ==
    /\ Interactive
    /\ showNavigation
    /\ isEditingIndex
    /\ LET parsed == ParseInt(inputIndex)
       IN  currentIndex' = IF parsed.nan THEN currentIndex
                           ELSE CommitTarget(parsed.val, total)
    /\ isEditingIndex' = FALSE
    /\ pc' = Commit(currentIndex' # currentIndex)
    /\ UNCHANGED <<dataset, fetchState, csvLoaded, initializedRef, hasInitializedRef,
                   inputIndex, storedIndex, storageMode, pureVars, teardownVars,
                   depVars, crashed, filterFree>>

NextApp ==
    \/ AppRunEffects
    \/ FetchThrows
    \/ FetchNotOk
    \/ FetchOk
    \/ \E text \in ResponseTexts : TextArrives(text)
    \/ AppPrevious
    \/ AppNext
    \/ EditIndex
    \/ \E t \in JumpInputs : TypeIndex(t)
    \/ commitIndex
    \/ EscapeEdit
    \/ CancelButton

SpecApp == InitApp /\ [][NextApp]_vars

\* ------------------------------------------------------------- teardown
\* SpecFetch: the startup fetch of the dashboard against the unmounting of
\* the component, at any moment after the mount.
NextFetch ==
    \/ RunEffects
    \/ FetchThrows
    \/ FetchNotOk
    \/ FetchOk
    \/ \E text \in ResponseTexts : TextArrives(text)
    \/ Teardown

SpecFetch == Init /\ [][NextFetch]_vars

\* ------------------------------------------------------------- helper functions
\* phone.replace(/\D/g, '')
StripNonDigits(t) == SelectSeq(t, IsDigit)

\* Mutant: the ten-digit test accepts longer digit strings too.
formatPhoneNumberAtLeastTen(p) ==
    LET digits == StripNonDigits(p)
    IN  IF Len(digits) >= 10
        THEN <<"(">> \o SubSeq(digits, 1, 3) \o <<")", " ">>
                 \o SubSeq(digits, 4, 6) \o <<"-">>
                 \o SubSeq(digits, 7, Len(digits))
        ELSE p

formatPhoneNumber(p) ==
    LET digits == StripNonDigits(p)
    IN  IF Len(digits) = 10
        THEN <<"(">> \o SubSeq(digits, 1, 3) \o <<")", " ">>
                 \o SubSeq(digits, 4, 6) \o <<"-">>
                 \o SubSeq(digits, 7, Len(digits))
        ELSE p

\* business.<field>?.trim() ?? '' : a column the row lacks reads as undefined.
TrimField(f) == IF f.has THEN Trim(f.v) ELSE <<>>

\* The object parseBusinesses maps a parsed row to.
TrimRow(row) ==
    [site_url      |-> TrimField(row.site_url),
     business_name |-> TrimField(row.business_name),
     industry      |-> TrimField(row.industry),
     company_name  |-> TrimField(row.company_name),
     city          |-> TrimField(row.city),
     phone_number  |-> TrimField(row.phone_number)]

\* Mutant: the filter does not look at the phone number.
KeepRowIgnoresPhone(business) ==
    \/ business.business_name # <<>>
    \/ business.company_name # <<>>
    \/ business.site_url # <<>>

\* The filter's predicate: an empty string is falsy.
KeepRow(business) ==
    \/ business.business_name # <<>>
    \/ business.company_name # <<>>
    \/ business.site_url # <<>>
    \/ business.phone_number # <<>>

\* parseBusinesses(csvText).businesses, given parsed.data.
parseBusinesses(data) ==
    SelectSeq([i \in DOMAIN data |-> TrimRow(data[i])], KeepRow)

\* Arguments of formatPhoneNumber.
TenDigits == <<"5", "5", "5", "1", "2", "3", "4", "5", "6", "7">>
CallNow == <<"5", "5", "5", "-", "C", "A", "L", "L", "-", "N", "O", "W">>
Formatted437 ==
    <<"(", "4", "3", "7", ")", " ", "2", "2", "2", "-", "2", "2", "3", "4">>

InsertAt(t, k, c) == SubSeq(t, 1, k) \o <<c>> \o SubSeq(t, k + 1, Len(t))
RemoveAt(t, k) == SubSeq(t, 1, k - 1) \o SubSeq(t, k + 1, Len(t))

PhoneInputs ==
    {<<>>, TenDigits, CallNow, Formatted437}
        \cup {InsertAt(TenDigits, k, c) :
                 k \in 0..Len(TenDigits), c \in {"-", " ", "x", "0"}}
        \cup {RemoveAt(TenDigits, k) : k \in 1..Len(TenDigits)}

\* Rows of parsed.data: a field is missing, blank, or has text with white
\* space around it.
NameFields == {NoText, SomeText(<<" ">>), SomeText(<<" ", "x", " ">>)}
LinkFields == {SomeText(<<>>), SomeText(<<"y", "\n">>)}

CsvRowSet ==
    [site_url      : LinkFields,
     business_name : NameFields,
     industry      : {SomeText(<<"A", " ">>)},
     company_name  : LinkFields,
     city          : {NoText},
     phone_number  : NameFields]

CsvInputs == UNION {[1..n -> CsvRowSet] : n \in 0..MaxRows}

dashboardVars ==
    <<dataset, fetchState, csvLoaded, selectedIndustry, currentIndex,
      initializedRef, hasInitializedRef, jumpInput, showJumpInput,
      isEditingIndex, inputIndex, storedIndex, storedIndustry, urlIndustry,
      storageMode, pc, mounted, depIndex, depIndustry, depTotal,
      crashed, atStartup, beforeReload, filterChanges, resetCount,
      cancelled, arrivedLate>>

\* SpecPure applies each helper function to an argument; the dashboard is
\* not running.
InitPure ==
    /\ dataset = <<>>
    /\ storedIndex = NoText
    /\ storedIndustry = NoName
    /\ urlIndustry = NoName
    /\ storageMode = "ok"
    /\ FirstRender(urlIndustry, storedIndustry, readThrows)
    /\ atStartup = StorageNow
    /\ beforeReload = NoReload
    /\ formatted = NotApplied
    /\ parsedRows = NotApplied
    /\ \/ phone \in PhoneInputs /\ csvRows = <<>>
       \/ phone = <<>> /\ csvRows \in CsvInputs

FormatPhone ==
    /\ ~formatted.done
    /\ formatted' = Applied(formatPhoneNumber(phone))
    /\ UNCHANGED <<phone, csvRows, parsedRows, dashboardVars>>

ParseRows ==
    /\ ~parsedRows.done
    /\ parsedRows' = Applied(parseBusinesses(csvRows))
    /\ UNCHANGED <<phone, formatted, csvRows, dashboardVars>>

NextPure ==
    \/ FormatPhone
    \/ ParseRows

SpecPure == InitPure /\ [][NextPure]_vars


\* ============================================================= claims
InRange == 0 <= currentIndex /\ currentIndex < total

UrlFor(industry) == IF industry # "" THEN SomeName(industry) ELSE NoName

\* C1: in every reachable state of the filtered dashboard with a non-empty
\* active subsequence, 0 <= currentIndex < length of the active subsequence.
\* (Violated: the render that follows a filter change keeps the old index
\* until the reset effect has run.)
C1_IndexInRange == total > 0 => InRange

\* C2: until the state is marked hydrated, and for the whole session when the
\* dataset never loads, the stored index, the stored filter and the URL
\* parameter are what they were when the page was opened.
C2_NoWriteBeforeHydration ==
    (~hasInitializedRef \/ ~csvLoaded) => StorageNow = atStartup

\* A session that stays unhydrated after its effects and its fetch have run,
\* over a saved position that the default 0 would have overwritten.
C2_Witness ==
    /\ ~hasInitializedRef
    /\ mounted
    /\ pc = "idle"
    /\ fetchState = "done"
    /\ storedIndex = SomeText(<<"1">>)
    /\ currentIndex = 0

\* C3: after hydration, whenever no effect is pending, the stored index is the
\* in-memory index, the stored filter is the in-memory filter and the URL
\* parameter is the in-memory filter (absent when the filter is empty).
\* Stated for browsers whose storage works. (Violated: hydration that leaves
\* the index at 0 commits nothing, so the persist effect does not run.)
C3_StorageAgrees ==
    (hasInitializedRef /\ pc = "idle" /\ storageMode = "ok") =>
        /\ storedIndex.has
        /\ ~ParseInt(storedIndex.v).nan
        /\ ParseInt(storedIndex.v).val = currentIndex
        /\ storedIndustry = SomeName(selectedIndustry)
        /\ urlIndustry = UrlFor(selectedIndustry)

\* The view state a reload restores, once the reloaded page has hydrated and
\* before its first event.
Restored ==
    /\ currentIndex = beforeReload.index
    /\ selectedIndustry = beforeReload.industry

\* C4 as stated: a reload of a hydrated session hydrates to the index and the
\* filter the session ended at. (Violated where storage access throws: the
\* session wrote nothing.)
C4_ReloadRoundTrip ==
    (beforeReload.valid /\ hasInitializedRef) => Restored

\* C4 as amended: in a browser whose storage access does not throw, a reload
\* of a hydrated session with identical data hydrates to the index and the
\* filter the session ended at.
C4_ReloadRoundTripStorageOk ==
    (beforeReload.valid /\ hasInitializedRef /\ storageMode = "ok") => Restored

\* A reloaded page that hydrated to a non-zero index under a filter.
C4_Witness ==
    /\ beforeReload.valid
    /\ hasInitializedRef
    /\ storageMode = "ok"
    /\ beforeReload.index > 0
    /\ beforeReload.industry # ""
    /\ currentIndex = beforeReload.index
    /\ selectedIndustry = beforeReload.industry

\* C5: every change of the filter resets the index to 0 exactly once: the
\* reset runs once per filter change (also for the second of two changes),
\* it leaves the index at 0, it has run when the change has been processed,
\* it never runs without a filter change, and apart from it only Previous, a
\* jump and a reload bring the index back to 0.
C5_ResetOnce ==
    /\ [](/\ resetCount <= 1
          /\ (filterChanges = 0 => resetCount = 0)
          /\ (filterChanges > 0 => hasInitializedRef)
          /\ (filterChanges > 0 /\ pc = "idle" => resetCount = 1))
    /\ [][resetCount' > resetCount => currentIndex' = 0]_vars
    /\ [][(currentIndex > 0 /\ currentIndex' = 0) =>
            (resetCount' > resetCount \/ GoPrevious \/ handleJump \/ Reload)]_vars

\* The second of two filter changes has just reset a non-zero index.
C5_Witness ==
    /\ filterChanges = 2
    /\ resetCount = 1
    /\ pc = "effects"
    /\ depIndex > 0
    /\ currentIndex = 0

\* C6: once the fetched text has been taken as the dataset and the effects
\* have run, the state is marked hydrated, whatever the length of the active
\* subsequence. (Violated: with an empty active subsequence the restore
\* effect does nothing.)
C6_HydratedOnceLoaded == (csvLoaded /\ pc = "idle") => hasInitializedRef

\* C7: handleJump applies the 1-based input n (index becomes n - 1) if and
\* only if 1 <= n <= length of the active subsequence; otherwise (0,
\* length + 1, negative, not a number) index, filter, stored values and the
\* editor are left as they are and no effect is scheduled.
C7_JumpContract ==
    [][handleJump =>
        LET n == ParseInt(jumpInput)
        IN  IF ~n.nan /\ 1 <= n.val /\ n.val <= total
            THEN /\ currentIndex' = n.val - 1
                 /\ InRange'
                 /\ (n.val = 1 => currentIndex' = 0)
                 /\ UNCHANGED <<selectedIndustry, storageVars>>
            ELSE UNCHANGED <<currentIndex, selectedIndustry, storageVars,
                             jumpInput, showJumpInput, pc>>]_vars

\* The editor holds length + 1 in a hydrated session: Go leaves this state as it is.
C7_Witness ==
    /\ Interactive
    /\ cardShown
    /\ showJumpInput
    /\ hasInitializedRef
    /\ ~ParseInt(jumpInput).nan
    /\ ParseInt(jumpInput).val = total + 1

\* C8: commitIndex leaves the index as it is for a numeric position outside
\* 1..total. (Violated: commitIndex clamps the position into the range.)
C8_CommitRejectsOutOfRange ==
    [][commitIndex =>
        LET n == ParseInt(inputIndex)
        IN  (~n.nan /\ (n.val < 1 \/ n.val > total)) => currentIndex' = currentIndex]_vars

\* C9: with the index inside the range, Previous moves to index - 1 and Next
\* to index + 1, both staying inside the range; the handlers' targets at the
\* ends are the ends themselves; Previous is disabled exactly at index 0 and
\* Next exactly at index length - 1; and whenever an event can be handled
\* over a non-empty subsequence the index is inside the range.
C9_NavContract ==
    /\ [](InRange =>
            /\ (~canGoBack <=> currentIndex = 0)
            /\ (~canGoNext <=> currentIndex = total - 1)
            /\ PreviousTarget(currentIndex) = Max(0, currentIndex - 1)
            /\ NextTarget(currentIndex, total) = Min(total - 1, currentIndex + 1)
            /\ (currentIndex = 0 => PreviousTarget(currentIndex) = currentIndex)
            /\ (currentIndex = total - 1 => NextTarget(currentIndex, total) = currentIndex))
    /\ []((Interactive /\ total > 0) => InRange)
    /\ [][GoPrevious => (currentIndex' = currentIndex - 1 /\ InRange')]_vars
    /\ [][GoNext => (currentIndex' = currentIndex + 1 /\ InRange')]_vars

\* Next has just moved to the last index of a filtered subsequence.
C9_Witness ==
    /\ pc = "effects"
    /\ hasInitializedRef
    /\ depIndex = currentIndex - 1
    /\ depIndustry = selectedIndustry
    /\ currentIndex = total - 1
    /\ ~canGoNext
    /\ canGoBack

\* C10: storage failures are never fatal. No exception escapes; when the
\* reads throw, the filter read falls back to '' (the stored filter is read
\* only when the URL names none) and the index read to 0; when the writes
\* throw, storage and URL stay as they are while Previous, Next, jump, filter
\* change and the reset act on the in-memory state as they always do.
C10_StorageFailuresNotFatal ==
    /\ [](~crashed)
    /\ []((readThrows /\ ~hasInitializedRef) =>
            /\ currentIndex = 0
            /\ (~(urlIndustry.has /\ urlIndustry.v # "") => selectedIndustry = ""))
    /\ [][(readThrows /\ ~hasInitializedRef /\ hasInitializedRef') => currentIndex' = 0]_vars
    /\ [][writeThrows =>
            /\ ~crashed'
            /\ UNCHANGED storageVars
            /\ (GoPrevious => currentIndex' = currentIndex - 1)
            /\ (GoNext => currentIndex' = currentIndex + 1)
            /\ \A f \in RowIndustries : SelectIndustry(f) => selectedIndustry' = f
            /\ ((handleJump /\ JumpAccepted(ParseInt(jumpInput)))
                    => currentIndex' = ParseInt(jumpInput).val - 1)
            /\ (resetCount' > resetCount => currentIndex' = 0)
            /\ (filterChanges > 0 /\ pc' = "idle" => resetCount' = 1)]_vars

\* A session whose storage access throws, over a saved position and a saved
\* filter, after a filter change and a step away from index 0.
C10_Witness ==
    /\ storageMode = "disabled"
    /\ storedIndex = SomeText(<<"1">>)
    /\ storedIndustry = SomeName("A")
    /\ ~urlIndustry.has
    /\ hasInitializedRef
    /\ filterChanges > 0
    /\ currentIndex > 0
    /\ pc = "idle"

\* C11: after hydration, once the filter has been changed and the effects of
\* that change have run, the URL's industry parameter is the new filter (set
\* when it is non-empty, removed when it is cleared), also in sessions where
\* storage writes throw. (Violated where setItem throws: the URL update is in
\* the same try block, after the two setItem calls.)
C11_UrlWrittenBack ==
    (hasInitializedRef /\ pc = "idle" /\ ~crashed /\ filterChanges > 0) =>
        urlIndustry = UrlFor(selectedIndustry)


\* The filter the claim gives a page opened over the storage and the URL in
\* atStartup; a stored filter whose read throws is no stored filter.
StartupFilter ==
    IF atStartup.url.has /\ atStartup.url.v # "" THEN atStartup.url.v
    ELSE IF storageMode # "disabled" /\ atStartup.industry.has
            /\ atStartup.industry.v # ""
    THEN atStartup.industry.v
    ELSE ""

\* C12: until the user changes the filter, the filter is the URL parameter
\* the page was opened with when that is present and non-empty, otherwise the
\* stored filter it was opened with, otherwise empty; and nothing but the
\* selector (or a reload) changes the filter later, whatever the session
\* writes to the URL and to storage.
C12_StartupFilter ==
    /\ [](filterChanges = 0 => selectedIndustry = StartupFilter)
    /\ [][selectedIndustry' # selectedIndustry =>
              (Reload \/ \E f \in RowIndustries : SelectIndustry(f))]_vars

\* The URL parameter overrode a different stored filter, and the session has
\* since written its own filter to storage.
C12_Witness ==
    /\ atStartup.url = SomeName("A")
    /\ atStartup.industry = SomeName("B")
    /\ selectedIndustry = "A"
    /\ storedIndustry = SomeName("A")
    /\ filterChanges = 0

\* The stored index as getItem returns it: nothing when the read throws.
StoredIndexAsRead == IF readThrows THEN NoText ELSE storedIndex

\* The index the claim gives hydration over a stored value and a length n > 0.
ClampedStored(stored, n) ==
    LET parsed == ParseInt(stored.v)
    IN  IF ~stored.has \/ parsed.nan THEN 0
        ELSE IF parsed.val < 0 THEN 0
        ELSE IF parsed.val >= n THEN n - 1
        ELSE parsed.val

\* C13: the step that hydrates leaves the index at the stored integer clamped
\* into [0, length - 1] of the active subsequence: 0 for a missing or
\* non-numeric stored value, 0 for a negative one, length - 1 for one that is
\* >= length; and over 4 rows a stored "2" gives index 2.
C13_HydratedIndex ==
    /\ [][(~hasInitializedRef /\ hasInitializedRef') =>
              /\ total' > 0
              /\ currentIndex' = ClampedStored(StoredIndexAsRead, total')]_vars
    /\ [](~readThrows => getStoredIndexFrom(SomeText(<<"2">>), 4) = 2)

\* Hydration over a stored "9" and two rows has clamped the index to 1.
C13_Witness ==
    /\ hasInitializedRef
    /\ storageMode = "ok"
    /\ atStartup.index = SomeText(<<"9">>)
    /\ filterChanges = 0
    /\ beforeReload = NoReload
    /\ total = 2
    /\ currentIndex = 1
    /\ pc = "idle"

\* Text that is empty or white space only.
AllBlank(text) == \A i \in 1..Len(text) : IsSpace(text[i])

\* The startup fetch is over and has left no dataset.
FetchFailed == fetchState = "done" /\ ~csvLoaded

\* C14: a fetch that throws, a response that is not OK and a body that is
\* empty or white space only each end the fetch without a dataset; from then
\* on, until the page is reloaded, the dataset stays empty, the card is not
\* shown (the empty-state view is), no exception has escaped, and the fetch
\* is not started again.
C14_FetchFailureStaysEmpty ==
    /\ [][(FetchThrows \/ FetchNotOk) => FetchFailed']_vars
    /\ [][\A text \in ResponseTexts :
              (TextArrives(text) /\ AllBlank(text)) => FetchFailed']_vars
    /\ [][FetchFailed => (Reload \/ FetchFailed')]_vars
    /\ [](FetchFailed => (businesses = <<>> /\ total = 0 /\ ~cardShown /\ ~crashed))

\* The fetch has failed and the page sits idle in its empty state.
C14_Witness ==
    /\ FetchFailed
    /\ pc = "idle"
    /\ mounted
    /\ ~cardShown

\* out is exactly the rows of `rows` whose industry is f, in the order of
\* `rows`: every element is such a row, lines strictly increase (nothing
\* duplicated or reordered), and no such row is missing.
ExactlyRowsOf(out, rows, f) ==
    /\ \A k \in 1..Len(out) :
           /\ out[k].industry = f
           /\ out[k].line \in 1..Len(rows)
           /\ out[k] = rows[out[k].line]
    /\ \A k \in 1..(Len(out) - 1) : out[k].line < out[k + 1].line
    /\ \A i \in 1..Len(rows) :
           rows[i].industry = f => \E k \in 1..Len(out) : out[k] = rows[i]

\* C15: for the dataset of every reachable state and every filter value f
\* (also one no row has), filtering yields exactly the rows whose industry is
\* f, in their original order; with no filter it yields the whole dataset; and
\* the active subsequence is that result for the selected filter.
C15_FilterExact ==
    /\ \A f \in (RowIndustries \cup {"Z"}) \ {""} :
           ExactlyRowsOf(FilterRows(dataset, f), dataset, f)
    /\ FilterRows(dataset, "") = dataset
    /\ selectedIndustry # "" =>
           ExactlyRowsOf(filteredBusinesses, businesses, selectedIndustry)
    /\ selectedIndustry = "" => filteredBusinesses = businesses

\* A filter is selected over a loaded dataset whose first row it drops.
C15_Witness ==
    /\ csvLoaded
    /\ selectedIndustry = "A"
    /\ Len(dataset) = 2
    /\ dataset[1].industry = ""
    /\ total = 1
    /\ filteredBusinesses[1].line = 2
    /\ pc = "idle"

\* A field of a parsed row that has something besides white space.
NonBlank(f) == f.has /\ ~AllBlank(f.v)

\* At least one tracked field of the row is non-empty after trimming.
TrackedNonBlank(row) ==
    \/ NonBlank(row.business_name)
    \/ NonBlank(row.company_name)
    \/ NonBlank(row.site_url)
    \/ NonBlank(row.phone_number)

\* The positions of the rows the claim keeps, and the k-th of them.
KeptPositions == {i \in DOMAIN csvRows : TrackedNonBlank(csvRows[i])}
KeptPosition(k) ==
    CHOOSE i \in KeptPositions : Cardinality({j \in KeptPositions : j < i}) = k - 1

\* C16: what parseBusinesses returns is, in source order, the trimmed rows
\* that have at least one of business_name, company_name, site_url,
\* phone_number non-empty after trimming, and no other row.
C16_KeepRowRule ==
    parsedRows.done =>
        /\ Len(parsedRows.v) = Cardinality(KeptPositions)
        /\ \A k \in 1..Len(parsedRows.v) :
               parsedRows.v[k] = TrimRow(csvRows[KeptPosition(k)])

\* Of two rows, the first with every tracked field blank and the second with
\* only a phone number, parseBusinesses has returned the second.
C16_Witness ==
    /\ parsedRows.done
    /\ Len(csvRows) = 2
    /\ ~TrackedNonBlank(csvRows[1])
    /\ NonBlank(csvRows[2].phone_number)
    /\ ~NonBlank(csvRows[2].business_name)
    /\ ~NonBlank(csvRows[2].company_name)
    /\ ~NonBlank(csvRows[2].site_url)
    /\ Len(parsedRows.v) = 1
    /\ parsedRows.v[1].phone_number = <<"x">>

\* C17: in every settled state with a loaded text whose parse reported at
\* least one row-level error, the advisory banner is shown, with the card and
\* with the empty-state message alike. (Violated in the filtered dashboard:
\* the banner is rendered inside the card only.)
C17_BannerWithErrors ==
    (csvLoaded /\ pc = "idle") =>
        \A errors \in ParseErrorCounts : errors >= 1 => errorBannerShown(errors)

\* C18: in every reachable state whose active subsequence is empty, the
\* Previous and the Next control are disabled and no card is rendered.
C18_EmptyDisablesControls ==
    total = 0 => (~canGoBack /\ ~canGoNext /\ ~cardShown)

\* A loaded dataset with rows, none of which the filter selects.
C18_Witness ==
    /\ csvLoaded
    /\ Len(dataset) > 0
    /\ total = 0
    /\ pc = "idle"
    /\ mounted

\* The decimal digits of a text, in order.
RECURSIVE DigitsOf(_)
DigitsOf(t) ==
    IF t = <<>> THEN <<>>
    ELSE (IF Head(t) \in {"0", "1", "2", "3", "4", "5", "6", "7", "8", "9"}
          THEN <<Head(t)>> ELSE <<>>) \o DigitsOf(Tail(t))

FormattedTenDigits ==
    <<"(", "5", "5", "5", ")", " ", "1", "2", "3", "-", "4", "5", "6", "7">>

\* C19: formatPhoneNumber returns "(XXX) XXX-XXXX" built from the digits of
\* its argument when the argument has exactly 10 digits once the non-digits
\* are removed, and the argument unchanged otherwise; "5551234567" gives
\* "(555) 123-4567" and "555-CALL-NOW" comes back verbatim.
C19_FormatPhone ==
    formatted.done =>
        LET d == DigitsOf(phone)
        IN  /\ Len(d) = 10 =>
                   formatted.v = <<"(", d[1], d[2], d[3], ")", " ", d[4], d[5],
                                   d[6], "-", d[7], d[8], d[9], d[10]>>
            /\ Len(d) # 10 => formatted.v = phone
            /\ phone = TenDigits => formatted.v = FormattedTenDigits
            /\ phone = CallNow => formatted.v = CallNow

\* "5551234567" has been formatted.
C19_Witness ==
    /\ formatted.done
    /\ phone = TenDigits
    /\ formatted.v = FormattedTenDigits

\* C20: in every state where the loaded dataset has rows and the page takes
\* events, the industry selector is available, so that a filter matching no
\* row can be changed. (Violated: the selector is part of the card, and there
\* is no card while the filter matches no row.)
C20_SelectorAvailable ==
    (csvLoaded /\ Len(businesses) > 0 /\ Interactive) => selectorShown

\* The industry values that occur in the rows of the dataset.
OccurringIndustries == {dataset[i].industry : i \in 1..Len(dataset)}

\* C21: in every hydrated state the active subsequence has at least one row:
\* the step that hydrates ends with a non-empty subsequence, the dataset once
\* set stays as it is until a reload, and every filter the selector sets is
\* empty or an industry value that occurs in the dataset.
C21_HydratedNeverEmpty ==
    /\ [](hasInitializedRef => total > 0)
    /\ [][(~hasInitializedRef /\ hasInitializedRef') => total' > 0]_vars
    /\ [][csvLoaded => (Reload \/ (csvLoaded' /\ businesses' = businesses))]_vars
    /\ [][\A f \in RowIndustries :
              SelectIndustry(f) => (f = "" \/ f \in OccurringIndustries)]_vars

\* Hydrated, and the user has since narrowed the dataset to an industry.
C21_Witness ==
    /\ hasInitializedRef
    /\ filterChanges > 0
    /\ selectedIndustry = "A"
    /\ total > 0
    /\ total < Len(dataset)
    /\ pc = "idle"

\* The (index, filter) pair in storage is a position: the index is a
\* non-negative integer below the length of the subsequence the filter selects.
StoredPairValid ==
    (storedIndex.has /\ storedIndustry.has) =>
        /\ ~ParseInt(storedIndex.v).nan
        /\ ParseInt(storedIndex.v).val >= 0
        /\ ParseInt(storedIndex.v).val <
               Len(FilterRows(businesses, storedIndustry.v))

\* C22: every step that writes the stored index or the stored filter leaves
\* a valid position in storage; in particular the write-back of a filter
\* change does not pair the previous filter's index with the new filter.
\* (Violated: the persist effect of the commit that changes the filter runs
\* before the reset effect and stores the old index under the new filter.)
C22_StoredPairValid ==
    [][(storedIndex' # storedIndex \/ storedIndustry' # storedIndustry) =>
           StoredPairValid']_vars

\* The filter the stored index was saved under, as the page found it.
StartupStoredFilter ==
    IF atStartup.industry.has THEN atStartup.industry.v ELSE ""

\* The URL parameter the page was opened with names a filter other than the
\* stored one.
UrlOverridesStoredFilter ==
    /\ atStartup.url.has
    /\ atStartup.url.v # ""
    /\ atStartup.url.v # StartupStoredFilter

\* C23: when the URL parameter overrode a different stored filter at startup,
\* the step that hydrates leaves the index at 0, not at the stored index
\* clamped into the subsequence of the URL's filter. (Violated: the restore
\* effect applies getStoredIndex(total) whatever filter the index was saved
\* under.)
C23_NoRestoreAcrossFilters ==
    [][(~hasInitializedRef /\ hasInitializedRef' /\ UrlOverridesStoredFilter) =>
           currentIndex' = 0]_vars

\* C24: the restore effect applies the stored index only while the state is
\* not yet hydrated, and then the active subsequence is non-empty; the
\* hydrated flag, once set, stays set until a reload; and in a hydrated
\* state the index moves only by a navigation handler or to 0 (the reset of
\* a filter change), so a later change of the length never brings the stored
\* index back.
C24_HydratedOnce ==
    /\ [][(RunEffects /\ RestoreFires) =>
              (~hasInitializedRef /\ total > 0 /\ hasInitializedRef')]_vars
    /\ [][hasInitializedRef => (hasInitializedRef' \/ Reload)]_vars
    /\ [][(hasInitializedRef /\ currentIndex' # currentIndex) =>
              (GoPrevious \/ GoNext \/ handleJump \/ Reload \/ currentIndex' = 0)]_vars

\* Hydrated over a stored "1"; a filter change has since changed the length
\* and the index is 0, not the stored index.
C24_Witness ==
    /\ hasInitializedRef
    /\ filterChanges > 0
    /\ pc = "idle"
    /\ selectedIndustry = ""
    /\ total = 2
    /\ atStartup.index = SomeText(<<"1">>)
    /\ beforeReload = NoReload
    /\ currentIndex = 0

\* C25: once the component has been torn down, no step applies a fetch
\* result: csvText and the dataset stay as they were, and no render is
\* queued, whether the teardown came before the response or between the
\* response and its body.
C25_CancellationGuard ==
    [][cancelled =>
           /\ csvLoaded' = csvLoaded
           /\ businesses' = businesses
           /\ pc' = pc]_vars

\* A body the fetch would have taken arrived after the teardown and was
\* dropped.
C25_Witness ==
    /\ cancelled
    /\ arrivedLate
    /\ fetchState = "done"
    /\ ~csvLoaded

\* C26: leaving the position editor through the Cancel button or the Escape
\* key leaves the index as it was, whatever the input holds. (Violated for
\* the Cancel button: the blur it causes runs commitIndex on the typed value.)
C26_CancelKeepsIndex ==
    [][(CancelButton \/ EscapeEdit) => currentIndex' = currentIndex]_vars
====
